---- MODULE Spec2Model ----
(***************************************************************************)
(* Model of the smart-prioritizer task optimizer:                          *)
(*   - knapsackOptimization (src/src/algorithms/knapsack.js, lines 8-66),  *)
(*   - the App task handlers (same file, lines 82-178),                    *)
(*   - the OptimizedTaskList effect and its 400 ms timer                   *)
(*     (src/src/components/OptimizedTaskList.js, lines 13-61),             *)
(*   - mergeSort, imported by App from ./algorithms/mergeSort.             *)
(*                                                                         *)
(* Numbers.  time and timeLimit are JavaScript numbers that may be         *)
(* fractional.  They are represented in HALF units: the model value 3      *)
(* stands for 1.5.  Math.floor of such a value is Floor(x) = x \div 2, a   *)
(* whole number of units.  importance is a whole number.  A published      *)
(* remainingTime is kept in half units, like timeLimit.                    *)
(***************************************************************************)
EXTENDS Integers, Sequences, FiniteSets, TLC

VARIABLES
    tasks,            \* App state: the task list (App, line 83)
    timeLimit,        \* App state: the time budget, half units (App, line 84)
    nextId,           \* the identifier the next created task receives
    changes,          \* number of user events so far (bounded by MaxChanges)
    optimizedTasks,   \* OptimizedTaskList state (line 6)
    totalValue,       \* OptimizedTaskList state (line 7)
    remainingTime,    \* OptimizedTaskList state (line 8), half units
    isCalculating,    \* OptimizedTaskList state (line 9)
    exceedsTimeLimit, \* OptimizedTaskList state (line 11)
    timer,            \* the pending setTimeout callback and what it captured
    lastRun,          \* history: inputs and branch of the latest timer callback
    knapIn,           \* arguments of a direct knapsackOptimization call
    knapOut,          \* its outcome
    sortIn,           \* arguments of a mergeSort call
    sortOut,          \* its outcome
    sortBy,           \* App state: the sort field (App, line 85)
    sortOrder         \* App state: "asc" or "desc" (App, line 86)

vars == <<tasks, timeLimit, nextId, changes, optimizedTasks, totalValue,
          remainingTime, isCalculating, exceedsTimeLimit, timer, lastRun,
          knapIn, knapOut, sortIn, sortOut, sortBy, sortOrder>>

viewVars == <<sortBy, sortOrder>>

appVars == <<tasks, timeLimit, nextId, changes, optimizedTasks, totalValue,
             remainingTime, isCalculating, exceedsTimeLimit, timer, lastRun>>

(***************************************************************************)
(* Bounds                                                                  *)
(***************************************************************************)
MaxTasks == 2      \* longest task list
MaxImp == 1        \* importance ranges over 0..MaxImp
MaxTime2 == 2      \* time ranges over 0..MaxTime2 half units (0, 0.5, 1)
MaxBudget2 == 4    \* timeLimit ranges over -MaxBudget2..MaxBudget2 half units
MaxChanges == 3    \* user events after the initial load

\* importance and time are non-negative, as the data model expects them; the
\* budget may be zero, negative or fractional.
Importances == 0..MaxImp
Times == 0..MaxTime2
Budgets == (-MaxBudget2)..MaxBudget2

(***************************************************************************)
(* Numbers                                                                 *)
(***************************************************************************)
\* Math.floor on a value held in half units; the result is in whole units.
Floor(x2) == x2 \div 2

\* A whole number of units as a value in half units.
Whole(x) == x + x

\* JavaScript values that are either a number or undefined.
Num(v) == [def |-> TRUE, val |-> v]
Undefined == [def |-> FALSE, val |-> 0]

RECURSIVE SumImportance(_)
SumImportance(seq) ==
    IF seq = << >> THEN 0 ELSE Head(seq).importance + SumImportance(Tail(seq))

RECURSIVE SumFloorTime(_)
SumFloorTime(seq) ==
    IF seq = << >> THEN 0 ELSE Floor(Head(seq).time) + SumFloorTime(Tail(seq))

(***************************************************************************)
(* Tasks                                                                   *)
(***************************************************************************)
Task(id, importance, time, completed) ==
    [id |-> id, importance |-> importance, time |-> time, completed |-> completed]

RECURSIVE SeqsUpTo(_, _)
SeqsUpTo(S, n) ==
    IF n = 0 THEN {<< >>}
    ELSE LET shorter == SeqsUpTo(S, n - 1)
         IN  shorter \cup {Append(s, x) : s \in {t \in shorter : Len(t) = n - 1}, x \in S}

\* Task lists as a caller hands them to a pure function: identifiers are the
\* positions, so that every task of a list is distinguishable.
Attrs == Importances \X Times
WithIds(attrs) ==
    [i \in 1..Len(attrs) |-> Task(i, attrs[i][1], attrs[i][2], FALSE)]

(***************************************************************************)
(* knapsackOptimization (knapsack.js, lines 8-66)                          *)
(***************************************************************************)
\* line 30: the task fits into w units
FitsOff(taskTime, w) == taskTime < w
Fits(taskTime, w) == taskTime <= w

\* line 35: the include branch wins only on a strict improvement
IncludeWinsTie(includeTask, excludeTask) == includeTask >= excludeTask
IncludeWins(includeTask, excludeTask) == includeTask > excludeTask

\* lines 29-47: one cell of row i, from row i - 1
Cell(prevRow, taskTime, taskValue, w) ==
    IF Fits(taskTime, w)
    THEN LET includeTask == taskValue + prevRow[w - taskTime]
             excludeTask == prevRow[w]
         IN  IF IncludeWins(includeTask, excludeTask)
             THEN [dp |-> includeTask, included |-> TRUE]
             ELSE [dp |-> excludeTask, included |-> FALSE]
    ELSE [dp |-> prevRow[w], included |-> FALSE]

\* lines 14-48: the tables dp and included.  Row i (0..n) is kept at position
\* i + 1 of a sequence; a row is a function on 0..W (empty when W < 0).
RECURSIVE FillTable(_, _, _, _)
FillTable(taskList, W, i, table) ==
    IF i > Len(taskList) THEN table
    ELSE LET task == taskList[i]
             taskTime == Floor(task.time)
             taskValue == task.importance
             prevRow == table.dp[i]
             row == [w \in 0..W |-> Cell(prevRow, taskTime, taskValue, w)]
         IN  FillTable(taskList, W, i + 1,
                       [dp |-> Append(table.dp, [w \in 0..W |-> row[w].dp]),
                        included |-> Append(table.included,
                                            [w \in 0..W |-> row[w].included])])

Table(taskList, W) ==
    FillTable(taskList, W, 1,
              [dp |-> << [w \in 0..W |-> 0] >>,
               included |-> << [w \in 0..W |-> FALSE] >>])

\* included[i][w] as JavaScript reads it: an index outside the row yields
\* undefined, which is falsy.
IncludedAt(table, i, w) ==
    IF w \in DOMAIN table.included[i + 1] THEN table.included[i + 1][w] ELSE FALSE

\* dp[i][w] as JavaScript reads it.
DpAt(table, i, w) ==
    IF w \in DOMAIN table.dp[i + 1] THEN Num(table.dp[i + 1][w]) ELSE Undefined

\* line 56: selectedTasks.push(task)
PushFront(selectedTasks, task) == <<task>> \o selectedTasks
Push(selectedTasks, task) == Append(selectedTasks, task)

\* lines 50-59: walk from i = n down to 1
RECURSIVE Reconstruct(_, _, _, _, _)
Reconstruct(taskList, table, i, remainingWeight, selectedTasks) ==
    IF i = 0
    THEN [selectedTasks |-> selectedTasks, remainingWeight |-> remainingWeight]
    ELSE IF IncludedAt(table, i, remainingWeight)
         THEN Reconstruct(taskList, table, i - 1,
                          remainingWeight - Floor(taskList[i].time),
                          Push(selectedTasks, taskList[i]))
         ELSE Reconstruct(taskList, table, i - 1, remainingWeight, selectedTasks)

\* lines 14-16: Array(W + 1) raises RangeError for a negative length
ArrayThrows(W) == W + 1 < 0

\* The outcome of knapsackOptimization(taskList, limit): either it threw, or it
\* returned {selectedTasks, totalValue, remainingTime}; remainingTime is in
\* whole units, as the code returns it.
knapsackOptimization(taskList, limit) ==
    LET W == Floor(limit)
        n == Len(taskList)
    IN  IF ArrayThrows(W)
        THEN [threw |-> TRUE, selectedTasks |-> << >>, totalValue |-> Undefined,
              remainingTime |-> 0]
        ELSE LET table == Table(taskList, W)
                 walk == Reconstruct(taskList, table, n, W, << >>)
             IN  [threw |-> FALSE,
                  selectedTasks |-> walk.selectedTasks,
                  totalValue |-> DpAt(table, n, W),
                  remainingTime |-> walk.remainingWeight]

(***************************************************************************)
(* OptimizedTaskList: the timer callback (OptimizedTaskList.js, 17-58)     *)
(***************************************************************************)
\* line 19 (and App lines 164-165): tasks.filter(...)
Incomplete(task) == ~task.completed
Completed(task) == task.completed
IncompleteTasks(taskList) == SelectSeq(taskList, Incomplete)

\* lines 31-35: the comparator is negative when a sorts before b: higher
\* importance first, and among equal importance the shorter (unfloored) time.
SortsBefore(a, b) ==
    IF b.importance = a.importance THEN a.time - b.time < 0
    ELSE b.importance - a.importance < 0

\* lines 31-36: element 0 of the sorted copy.  Array.prototype.sort is stable,
\* so among tasks the comparator ties, the earliest of the input comes first.
MostImportantTask(incompleteTasks) ==
    LET first == CHOOSE i \in 1..Len(incompleteTasks) :
                    \A j \in 1..Len(incompleteTasks) :
                        /\ ~SortsBefore(incompleteTasks[j], incompleteTasks[i])
                        /\ (j < i => SortsBefore(incompleteTasks[i], incompleteTasks[j]))
    IN  incompleteTasks[first]

\* lines 21-28: nothing to optimize
EmptyResultFloored(limit) ==
    [optimizedTasks |-> << >>, totalValue |-> Num(0),
     remainingTime |-> Whole(Floor(limit)), exceedsTimeLimit |-> FALSE]
EmptyResult(limit) ==
    [optimizedTasks |-> << >>, totalValue |-> Num(0),
     remainingTime |-> limit, exceedsTimeLimit |-> FALSE]

\* line 45: the knapsack selected nothing although tasks exist
NeverFallback(selectedTasks, incompleteTasks) == FALSE
NeedsFallback(selectedTasks, incompleteTasks) ==
    Len(selectedTasks) = 0 /\ Len(incompleteTasks) > 0

\* lines 46-49: suggest the most important task alone
FallbackResultSentinel(mostImportantTask, limit) ==
    [optimizedTasks |-> <<mostImportantTask>>,
     totalValue |-> Num(mostImportantTask.importance),
     remainingTime |-> 0,
     exceedsTimeLimit |-> mostImportantTask.time > limit]
FallbackResult(mostImportantTask, limit) ==
    [optimizedTasks |-> <<mostImportantTask>>,
     totalValue |-> Num(mostImportantTask.importance),
     remainingTime |-> limit - mostImportantTask.time,
     exceedsTimeLimit |-> mostImportantTask.time > limit]

\* lines 51-54: publish the knapsack's result
GeneralResult(result) ==
    [optimizedTasks |-> result.selectedTasks,
     totalValue |-> result.totalValue,
     remainingTime |-> Whole(result.remainingTime),
     exceedsTimeLimit |-> result.remainingTime < 0]

\* lines 17-58: what the callback does with the tasks and timeLimit it
\* captured.  branch "threw": knapsackOptimization raised, the callback ends
\* at line 39 and no state setter is called.
Callback(capturedTasks, limit) ==
    LET incompleteTasks == IncompleteTasks(capturedTasks)
    IN  IF Len(incompleteTasks) = 0
        THEN [branch |-> "empty", out |-> EmptyResult(limit)]
        ELSE LET mostImportantTask == MostImportantTask(incompleteTasks)
                 result == knapsackOptimization(incompleteTasks, limit)
             IN  IF result.threw
                 THEN [branch |-> "threw", out |-> EmptyResult(limit)]
                 ELSE IF NeedsFallback(result.selectedTasks, incompleteTasks)
                      THEN [branch |-> "fallback",
                            out |-> FallbackResult(mostImportantTask, limit)]
                      ELSE [branch |-> "general", out |-> GeneralResult(result)]

NoTimer == [pending |-> FALSE, tasks |-> << >>, timeLimit |-> 0]
NoRun == [branch |-> "none", tasks |-> << >>, timeLimit |-> 0]

\* lines 13-17 and 60: the effect of a render with new tasks or timeLimit.  The
\* previous effect's cleanup clears its timer; isCalculating is set and a new
\* timer captures the new values.
EffectKeepsTimer(newTasks, newLimit) ==
    /\ isCalculating' = TRUE
    /\ timer' = IF timer.pending THEN timer
                ELSE [pending |-> TRUE, tasks |-> newTasks, timeLimit |-> newLimit]
    /\ lastRun' = NoRun
    /\ UNCHANGED <<optimizedTasks, totalValue, remainingTime, exceedsTimeLimit>>
Effect(newTasks, newLimit) ==
    /\ isCalculating' = TRUE
    /\ timer' = [pending |-> TRUE, tasks |-> newTasks, timeLimit |-> newLimit]
    /\ lastRun' = NoRun
    /\ UNCHANGED <<optimizedTasks, totalValue, remainingTime, exceedsTimeLimit>>

\* lines 17-58: the timer fires
TimerFire ==
    /\ timer.pending
    /\ LET run == Callback(timer.tasks, timer.timeLimit)
       IN  /\ lastRun' = [branch |-> run.branch, tasks |-> timer.tasks,
                          timeLimit |-> timer.timeLimit]
           /\ IF run.branch = "threw"
              THEN UNCHANGED <<optimizedTasks, totalValue, remainingTime,
                               exceedsTimeLimit, isCalculating>>
              ELSE /\ optimizedTasks' = run.out.optimizedTasks
                   /\ totalValue' = run.out.totalValue
                   /\ remainingTime' = run.out.remainingTime
                   /\ exceedsTimeLimit' = run.out.exceedsTimeLimit
                   /\ isCalculating' = FALSE
    /\ timer' = NoTimer
    /\ UNCHANGED <<tasks, timeLimit, nextId, changes, knapIn, knapOut, sortIn, sortOut>>
    /\ UNCHANGED viewVars

(***************************************************************************)
(* App: the handlers (knapsack.js, lines 128-155)                          *)
(***************************************************************************)
\* A user event: counted, and followed by the render that runs the effect.
Change(newTasks, newLimit) ==
    /\ changes < MaxChanges
    /\ changes' = changes + 1
    /\ tasks' = newTasks
    /\ timeLimit' = newLimit
    /\ Effect(newTasks, newLimit)
    /\ UNCHANGED <<knapIn, knapOut, sortIn, sortOut>>
    /\ UNCHANGED viewVars

\* lines 129-131.  The form hands over a new, incomplete task under a fresh
\* identifier.
handleAddTask ==
    /\ Len(tasks) < MaxTasks
    /\ \E importance \in Importances, time \in Times :
          Change(Append(tasks, Task(nextId, importance, time, FALSE)), timeLimit)
    /\ nextId' = nextId + 1

\* lines 134-140
ToggleTask(task, taskId) ==
    IF task.id = taskId THEN [task EXCEPT !.completed = ~task.completed] ELSE task

handleToggleComplete ==
    /\ \E i \in 1..Len(tasks) :
          LET taskId == tasks[i].id
          IN  Change([j \in 1..Len(tasks) |-> ToggleTask(tasks[j], taskId)], timeLimit)
    /\ UNCHANGED nextId

\* lines 143-145
handleDeleteTask ==
    /\ \E i \in 1..Len(tasks) :
          LET taskId == tasks[i].id
              Keeps(task) == task.id # taskId
          IN  Change(SelectSeq(tasks, Keeps), timeLimit)
    /\ UNCHANGED nextId

\* lines 148-150.  Setting the state to its current value renders nothing.
handleTimeChange ==
    /\ \E newTime \in Budgets :
          /\ newTime # timeLimit
          /\ Change(tasks, newTime)
    /\ UNCHANGED nextId

\* lines 153-155; the button exists only while a task is completed (line 280)
handleClearCompleted ==
    /\ \E i \in 1..Len(tasks) : tasks[i].completed
    /\ Change(SelectSeq(tasks, Incomplete), timeLimit)
    /\ UNCHANGED nextId

\* Values of the variables another specification uses.
NoCall == [tasks |-> << >>, timeLimit |-> 0]
NoResult == [called |-> FALSE, threw |-> FALSE, selectedTasks |-> << >>,
             totalValue |-> Undefined, remainingTime |-> 0]
NoSort == [tasks |-> << >>, key |-> "id", ascending |-> TRUE]
NoSorted == [called |-> FALSE, input |-> << >>, output |-> << >>]

\* App mounted on an empty task store and a stored time limit (lines 83-105):
\* the effect of the first render has set isCalculating and armed the timer.
Init ==
    /\ tasks = << >>
    /\ timeLimit \in Budgets
    /\ nextId = 1
    /\ changes = 0
    /\ optimizedTasks = << >>
    /\ totalValue = Num(0)
    /\ remainingTime = 0
    /\ isCalculating = TRUE
    /\ exceedsTimeLimit = FALSE
    /\ timer = [pending |-> TRUE, tasks |-> tasks, timeLimit |-> timeLimit]
    /\ lastRun = NoRun
    /\ knapIn = NoCall
    /\ knapOut = NoResult
    /\ sortIn = NoSort
    /\ sortOut = NoSorted
    /\ sortBy = "importance"
    /\ sortOrder = "desc"

Next ==
    \/ handleAddTask
    \/ handleToggleComplete
    \/ handleDeleteTask
    \/ handleTimeChange
    \/ handleClearCompleted
    \/ TimerFire

Spec == Init /\ [][Next]_vars

(***************************************************************************)
(* The timer callback alone, on every stored task list and time limit      *)
(***************************************************************************)
\* Task lists as loadTasks may return them (lines 91-93): any tasks, completed
\* or not, under distinct identifiers.
StoredLists ==
    {[i \in 1..Len(attrs) |-> Task(i, attrs[i][1], attrs[i][2], attrs[i][3])] :
        attrs \in SeqsUpTo(Importances \X Times \X BOOLEAN, MaxTasks)}

\* The task lists of the documented examples, in half units: importance and
\* time of [10,60] [20,30] [30,30]; of [5,10] [8,20]; of [5,3] [5,1]; and two
\* equal tasks [5,3] [5,3].
EndToEndTasks == <<Task(1, 10, 120, FALSE), Task(2, 20, 60, FALSE), Task(3, 30, 60, FALSE)>>
DegenerateTasks == <<Task(1, 5, 20, FALSE), Task(2, 8, 40, FALSE)>>
TieBreakTasks == <<Task(1, 5, 6, FALSE), Task(2, 5, 2, FALSE)>>
TwinTasks == <<Task(1, 5, 6, FALSE), Task(2, 5, 6, FALSE)>>

Examples ==
    {[tasks |-> EndToEndTasks, timeLimit |-> 120],
     [tasks |-> DegenerateTasks, timeLimit |-> 0],
     [tasks |-> TieBreakTasks, timeLimit |-> 0],
     [tasks |-> TwinTasks, timeLimit |-> 6]}

RunInputs ==
    {[tasks |-> l, timeLimit |-> b] : l \in StoredLists, b \in Budgets} \cup Examples

\* App mounted on a stored task list and time limit: the effect has armed the
\* timer with them.
InitRun ==
    /\ \E in \in RunInputs :
          /\ tasks = in.tasks
          /\ timeLimit = in.timeLimit
          /\ nextId = Len(in.tasks) + 1
          /\ timer = [pending |-> TRUE, tasks |-> in.tasks, timeLimit |-> in.timeLimit]
    /\ changes = 0
    /\ optimizedTasks = << >>
    /\ totalValue = Num(0)
    /\ remainingTime = 0
    /\ isCalculating = TRUE
    /\ exceedsTimeLimit = FALSE
    /\ lastRun = NoRun
    /\ knapIn = NoCall
    /\ knapOut = NoResult
    /\ sortIn = NoSort
    /\ sortOut = NoSorted
    /\ sortBy = "importance"
    /\ sortOrder = "desc"

SpecRun == InitRun /\ [][TimerFire]_vars

(***************************************************************************)
(* knapsackOptimization called directly                                    *)
(***************************************************************************)
KnapInputs ==
    {[tasks |-> WithIds(attrs), timeLimit |-> b] :
        attrs \in SeqsUpTo(Attrs, MaxTasks), b \in Budgets} \cup Examples

InitKnap ==
    /\ knapIn \in KnapInputs
    /\ knapOut = NoResult
    /\ tasks = << >>
    /\ timeLimit = 0
    /\ nextId = 1
    /\ changes = 0
    /\ optimizedTasks = << >>
    /\ totalValue = Num(0)
    /\ remainingTime = 0
    /\ isCalculating = FALSE
    /\ exceedsTimeLimit = FALSE
    /\ timer = NoTimer
    /\ lastRun = NoRun
    /\ sortIn = NoSort
    /\ sortOut = NoSorted
    /\ sortBy = "importance"
    /\ sortOrder = "desc"

KnapCall ==
    /\ ~knapOut.called
    /\ LET result == knapsackOptimization(knapIn.tasks, knapIn.timeLimit)
       IN  knapOut' = [called |-> TRUE, threw |-> result.threw,
                       selectedTasks |-> result.selectedTasks,
                       totalValue |-> result.totalValue,
                       remainingTime |-> result.remainingTime]
    /\ UNCHANGED <<knapIn, sortIn, sortOut>>
    /\ UNCHANGED viewVars
    /\ UNCHANGED appVars

SpecKnap == InitKnap /\ [][KnapCall]_vars

(***************************************************************************)
(* mergeSort(tasks, key, ascending), imported by App (knapsack.js line 72) *)
(* and used at lines 168-175; its file is not part of the sources, so it   *)
(* is modelled from the specification of the Orderer: split in two halves, *)
(* sort each, merge by taking the lesser front element, the left half      *)
(* first on ties; descending negates the comparator.                       *)
(***************************************************************************)
SortKeys == {"importance", "time", "id"}

KeyOf(task, key) ==
    CASE key = "importance" -> task.importance
      [] key = "time" -> task.time
      [] key = "id" -> task.id

\* a sorts strictly before b in the requested direction
Precedes(a, b, key, ascending) ==
    IF ascending THEN KeyOf(a, key) < KeyOf(b, key) ELSE KeyOf(a, key) > KeyOf(b, key)

\* the merge step takes the left front element unless the right one is
\* strictly lesser
TakesLeftStrict(l, r, key, ascending) == Precedes(l, r, key, ascending)
TakesLeft(l, r, key, ascending) == ~Precedes(r, l, key, ascending)

RECURSIVE merge(_, _, _, _)
merge(left, right, key, ascending) ==
    IF left = << >> THEN right
    ELSE IF right = << >> THEN left
    ELSE IF TakesLeft(Head(left), Head(right), key, ascending)
         THEN <<Head(left)>> \o merge(Tail(left), right, key, ascending)
         ELSE <<Head(right)>> \o merge(left, Tail(right), key, ascending)

RECURSIVE mergeSort(_, _, _)
mergeSort(arr, key, ascending) ==
    IF Len(arr) <= 1 THEN arr
    ELSE LET mid == Len(arr) \div 2
             left == SubSeq(arr, 1, mid)
             right == SubSeq(arr, mid + 1, Len(arr))
         IN  merge(mergeSort(left, key, ascending),
                   mergeSort(right, key, ascending), key, ascending)

\* Task lists in any order of their identifiers.
SortLists ==
    UNION {{[i \in 1..Len(attrs) |-> Task(perm[i], attrs[i][1], attrs[i][2], FALSE)] :
               perm \in Permutations(1..Len(attrs))} :
           attrs \in SeqsUpTo(Attrs, MaxTasks)}

\* Longer lists with ties under every key.
SortExamples ==
    {<<Task(4, 1, 3, FALSE), Task(2, 0, 3, FALSE), Task(3, 1, 1, FALSE), Task(1, 0, 1, FALSE)>>,
     <<Task(1, 2, 2, FALSE), Task(3, 2, 2, FALSE), Task(2, 1, 2, FALSE), Task(5, 2, 0, FALSE),
       Task(4, 1, 0, FALSE)>>}

InitSort ==
    /\ sortIn \in [tasks : SortLists \cup SortExamples, key : SortKeys, ascending : BOOLEAN]
    /\ sortOut = NoSorted
    /\ sortBy = "importance"
    /\ sortOrder = "desc"
    /\ tasks = << >>
    /\ timeLimit = 0
    /\ nextId = 1
    /\ changes = 0
    /\ optimizedTasks = << >>
    /\ totalValue = Num(0)
    /\ remainingTime = 0
    /\ isCalculating = FALSE
    /\ exceedsTimeLimit = FALSE
    /\ timer = NoTimer
    /\ lastRun = NoRun
    /\ knapIn = NoCall
    /\ knapOut = NoResult

\* A call: input is the caller's array after the call, output the returned one.
SortCall ==
    /\ ~sortOut.called
    /\ sortOut' = [called |-> TRUE, input |-> sortIn.tasks,
                   output |-> mergeSort(sortIn.tasks, sortIn.key, sortIn.ascending)]
    /\ UNCHANGED <<sortIn, knapIn, knapOut>>
    /\ UNCHANGED viewVars
    /\ UNCHANGED appVars

SpecSort == InitSort /\ [][SortCall]_vars

(***************************************************************************)
(* App: the displayed list (knapsack.js, lines 162-180)                    *)
(***************************************************************************)
\* the fields the Sort By select offers that a task of the model carries
SortByKeys == {"importance", "time"}
SortOrders == {"asc", "desc"}

\* lines 163-178: incomplete tasks sorted by sortBy in sortOrder, followed by
\* the completed tasks sorted by mergeSort(completedTasks, 'id', true)
getSortedTasks(taskList, by, order) ==
    LET incompleteTasks == SelectSeq(taskList, Incomplete)
        completedTasks == SelectSeq(taskList, Completed)
        sortedIncompleteTasks == mergeSort(incompleteTasks, by, order = "asc")
        sortedCompletedTasks == mergeSort(completedTasks, "id", TRUE)
    IN  sortedIncompleteTasks \o sortedCompletedTasks

\* line 180: the list handed to TaskList in the current render
sortedTasks == getSortedTasks(tasks, sortBy, sortOrder)

\* App mounted on a stored task list and stored sort preferences (lines 91-97)
InitView ==
    /\ tasks \in StoredLists
    /\ sortBy \in SortByKeys
    /\ sortOrder \in SortOrders
    /\ timeLimit = 0
    /\ nextId = Len(tasks) + 1
    /\ changes = 0
    /\ optimizedTasks = << >>
    /\ totalValue = Num(0)
    /\ remainingTime = 0
    /\ isCalculating = FALSE
    /\ exceedsTimeLimit = FALSE
    /\ timer = NoTimer
    /\ lastRun = NoRun
    /\ knapIn = NoCall
    /\ knapOut = NoResult
    /\ sortIn = NoSort
    /\ sortOut = NoSorted

\* line 242: the Sort By select.  Setting a state to its value renders nothing.
setSortBy ==
    /\ \E by \in SortByKeys : by # sortBy /\ sortBy' = by
    /\ UNCHANGED <<sortOrder, knapIn, knapOut, sortIn, sortOut>>
    /\ UNCHANGED appVars

\* line 262: the Order select
setSortOrder ==
    /\ \E order \in SortOrders : order # sortOrder /\ sortOrder' = order
    /\ UNCHANGED <<sortBy, knapIn, knapOut, sortIn, sortOut>>
    /\ UNCHANGED appVars

NextView == setSortBy \/ setSortOrder

SpecView == InitView /\ [][NextView]_vars

(***************************************************************************)
(* Properties                                                              *)
(***************************************************************************)
RECURSIVE SetImportance(_, _)
SetImportance(taskList, S) ==
    IF S = {} THEN 0
    ELSE LET i == CHOOSE i \in S : TRUE
         IN  taskList[i].importance + SetImportance(taskList, S \ {i})

RECURSIVE SetFloorTime(_, _)
SetFloorTime(taskList, S) ==
    IF S = {} THEN 0
    ELSE LET i == CHOOSE i \in S : TRUE
         IN  Floor(taskList[i].time) + SetFloorTime(taskList, S \ {i})

\* the position of a task in a list of distinct tasks
PositionIn(taskList, task) == CHOOSE i \in 1..Len(taskList) : taskList[i] = task

IdsOf(taskList) == [i \in 1..Len(taskList) |-> taskList[i].id]

\* a direct call has returned
Returned == knapOut.called /\ ~knapOut.threw

\* the case of C1: tasks exist, W > 0 and some task fits
FeasibleCase ==
    /\ Returned
    /\ Len(knapIn.tasks) > 0
    /\ Floor(knapIn.timeLimit) > 0
    /\ \E i \in 1..Len(knapIn.tasks) :
          Floor(knapIn.tasks[i].time) <= Floor(knapIn.timeLimit)

\* C1: for a non-empty task list and W = floor(budget) > 0 with a task that
\* fits, knapsackOptimization returns tasks of the input, each at most once,
\* whose floored times sum to at most W, and no subset of the input within W
\* has a strictly greater summed importance; the tasks [10,60] [20,30] [30,30]
\* with budget 60 yield tasks 3 and 2 with value 50.
C1_OptimalSelection ==
    FeasibleCase =>
        LET taskList == knapIn.tasks
            W == Floor(knapIn.timeLimit)
            selected == knapOut.selectedTasks
        IN  /\ \A j \in 1..Len(selected) :
                  \E i \in 1..Len(taskList) : taskList[i] = selected[j]
            /\ \A j, k \in 1..Len(selected) : j # k => selected[j] # selected[k]
            /\ SumFloorTime(selected) <= W
            /\ \A S \in SUBSET (1..Len(taskList)) :
                  SetFloorTime(taskList, S) <= W
                      => SetImportance(taskList, S) <= SumImportance(selected)
            /\ (taskList = EndToEndTasks /\ knapIn.timeLimit = 120)
                  => /\ IdsOf(selected) = <<3, 2>>
                     /\ knapOut.totalValue = Num(50)

\* C1 witness: the documented example has been solved, leaving task 1 out.
C1_Witness ==
    /\ FeasibleCase
    /\ knapIn.tasks = EndToEndTasks
    /\ knapIn.timeLimit = 120
    /\ Len(knapOut.selectedTasks) = 2

\* C2 (as claimed): for every call of knapsackOptimization the returned
\* totalValue is the summed importance of the returned selectedTasks, and the
\* returned remainingTime is floor(budget) minus their summed floored times.
C2_TotalsMatchSelection ==
    Returned =>
        /\ knapOut.totalValue = Num(SumImportance(knapOut.selectedTasks))
        /\ knapOut.remainingTime
              = Floor(knapIn.timeLimit) - SumFloorTime(knapOut.selectedTasks)

\* C9 (as claimed): two tasks of identical importance and time with a budget
\* equal to one task's time have exactly one of the two selected.
C9_TwinsExactlyOne ==
    (/\ Returned
     /\ Len(knapIn.tasks) = 2
     /\ knapIn.tasks[1].importance = knapIn.tasks[2].importance
     /\ knapIn.tasks[1].time = knapIn.tasks[2].time
     /\ knapIn.timeLimit = knapIn.tasks[1].time)
        => Len(knapOut.selectedTasks) = 1

\* C9 (amended): a task is included at a cell of the table only when including
\* it strictly increases the value over excluding it; and two tasks of
\* identical importance and time, with importance > 0 and floor(time) >= 1,
\* and a budget equal to one task's time have exactly one of the two selected.
C9_StrictInclusion ==
    Returned =>
        LET taskList == knapIn.tasks
            W == Floor(knapIn.timeLimit)
            table == Table(taskList, W)
        IN  /\ \A i \in 1..Len(taskList) : \A w \in 0..W :
                  table.included[i + 1][w] => table.dp[i + 1][w] > table.dp[i][w]
            /\ (/\ Len(taskList) = 2
                 /\ taskList[1].importance = taskList[2].importance
                 /\ taskList[1].time = taskList[2].time
                 /\ taskList[1].importance > 0
                 /\ Floor(taskList[1].time) >= 1
                 /\ knapIn.timeLimit = taskList[1].time)
                  => Len(knapOut.selectedTasks) = 1

\* C9 witness: twins of positive importance and a time of at least one unit,
\* with a budget of that time, have been solved.
C9_Witness ==
    /\ Returned
    /\ Len(knapIn.tasks) = 2
    /\ knapIn.tasks[1].importance = knapIn.tasks[2].importance
    /\ knapIn.tasks[1].time = knapIn.tasks[2].time
    /\ knapIn.tasks[1].importance > 0
    /\ Floor(knapIn.tasks[1].time) >= 1
    /\ knapIn.timeLimit = knapIn.tasks[1].time
    /\ Len(knapOut.selectedTasks) = 1

\* C10: selectedTasks lists the chosen tasks in the reverse of their input
\* order: of two selected tasks, the one later in the input comes earlier.
C10_ReverseInputOrder ==
    Returned =>
        \A j, k \in 1..Len(knapOut.selectedTasks) :
            j < k => PositionIn(knapIn.tasks, knapOut.selectedTasks[j])
                       > PositionIn(knapIn.tasks, knapOut.selectedTasks[k])

\* C10 witness: a call has selected at least two tasks.
C10_Witness == Returned /\ Len(knapOut.selectedTasks) >= 2

\* the latest timer callback ran on the current props and has not been
\* superseded; Ran excludes a callback that raised
Fired == lastRun.branch # "none"
Ran == Fired /\ lastRun.branch # "threw"
RunIncomplete == IncompleteTasks(lastRun.tasks)

\* task is of the highest importance in taskList and, among the tasks of that
\* importance, of the lowest time
IsMostImportant(taskList, task) ==
    /\ \E i \in 1..Len(taskList) : taskList[i] = task
    /\ \A i \in 1..Len(taskList) :
          \/ taskList[i].importance < task.importance
          \/ /\ taskList[i].importance = task.importance
             /\ taskList[i].time >= task.time

\* C6 (as claimed): for every task list and every budget, zero, negative and
\* non-integer ones included, the selection computation completes without
\* raising an error and publishes a selectedTasks sequence, a numeric
\* totalValue and a numeric remainingTime.
C6_NeverFails ==
    Fired => lastRun.branch # "threw" /\ totalValue.def

\* C3 (as claimed): whenever incomplete tasks exist and floor(budget) <= 0 or
\* every task's floored time exceeds floor(budget), the published selection is
\* exactly one task, of the highest importance and among those of the lowest
\* time.
C3_DegenerateSingleTask ==
    (/\ Fired
     /\ Len(RunIncomplete) > 0
     /\ \/ Floor(lastRun.timeLimit) <= 0
        \/ \A i \in 1..Len(RunIncomplete) :
              Floor(RunIncomplete[i].time) > Floor(lastRun.timeLimit))
        => /\ Len(optimizedTasks) = 1
           /\ IsMostImportant(RunIncomplete, optimizedTasks[1])

\* C4 (as claimed): whenever the fallback single-task path is taken, the
\* published remainingTime is 0.
C4_FallbackRemainingZero ==
    lastRun.branch = "fallback" => remainingTime = 0

\* C4 (amended): whenever the fallback single-task path is taken, the
\* published remainingTime is the budget minus the time of the one published
\* task, neither of them floored.
C4_FallbackRemainingDeficit ==
    lastRun.branch = "fallback" =>
        /\ Len(optimizedTasks) = 1
        /\ remainingTime = lastRun.timeLimit - optimizedTasks[1].time

\* C4 witness: the fallback path has published a task longer than the budget.
C4_Witness ==
    /\ lastRun.branch = "fallback"
    /\ Len(optimizedTasks) = 1
    /\ optimizedTasks[1].time > lastRun.timeLimit
    /\ remainingTime < 0

\* C5: when no incomplete task is given, the published result is no task,
\* totalValue 0 and remainingTime equal to the budget as passed, not floored.
C5_EmptyKeepsBudget ==
    (Ran /\ Len(RunIncomplete) = 0) =>
        /\ optimizedTasks = << >>
        /\ totalValue = Num(0)
        /\ remainingTime = lastRun.timeLimit

\* C5 witness: a run on no incomplete task under a non-integer budget.
C5_Witness ==
    /\ Ran
    /\ Len(RunIncomplete) = 0
    /\ lastRun.timeLimit % 2 = 1
    /\ remainingTime = lastRun.timeLimit

\* C7: whenever an incomplete task exists, a run that completes publishes at
\* least one task.
C7_AlwaysSuggests ==
    (Ran /\ Len(RunIncomplete) > 0) => Len(optimizedTasks) >= 1

\* C7 witness: a run whose knapsack selected nothing has published a task.
C7_Witness ==
    /\ Ran
    /\ Len(RunIncomplete) > 0
    /\ knapsackOptimization(RunIncomplete, lastRun.timeLimit).selectedTasks = << >>
    /\ Len(optimizedTasks) = 1

\* the sorted list is in the requested direction of the key
InDirection(seq, key, ascending) ==
    \A i, j \in 1..Len(seq) :
        i < j => IF ascending THEN KeyOf(seq[i], key) <= KeyOf(seq[j], key)
                 ELSE KeyOf(seq[i], key) >= KeyOf(seq[j], key)

\* C8: mergeSort is stable in both directions: the output is a permutation of
\* the input ordered by the key in the requested direction, tasks of equal key
\* keep their relative input order, and the input is not reordered.
C8_StableSort ==
    sortOut.called =>
        LET input == sortIn.tasks
            output == sortOut.output
        IN  /\ Len(output) = Len(input)
            /\ \A i \in 1..Len(input) : \E j \in 1..Len(output) : output[j] = input[i]
            /\ InDirection(output, sortIn.key, sortIn.ascending)
            /\ \A i, j \in 1..Len(output) :
                  (i < j /\ KeyOf(output[i], sortIn.key) = KeyOf(output[j], sortIn.key))
                      => PositionIn(input, output[i]) < PositionIn(input, output[j])
            /\ sortOut.input = input

\* C8 witness: a descending sort has reordered a list of at least three tasks
\* that holds two tasks of equal key.
C8_Witness ==
    /\ sortOut.called
    /\ ~sortIn.ascending
    /\ Len(sortIn.tasks) >= 3
    /\ sortOut.output # sortIn.tasks
    /\ \E i, j \in 1..Len(sortOut.output) :
          /\ i < j
          /\ KeyOf(sortOut.output[i], sortIn.key) = KeyOf(sortOut.output[j], sortIn.key)

\* the positions of the displayed list
Shown == 1..Len(sortedTasks)

\* C11: in the displayed list every incomplete task precedes every completed
\* task, and the completed tasks are ordered newest first, that is by
\* descending identifier.
C11_CompletedNewestFirst ==
    \A i, j \in Shown :
        i < j => /\ ~(sortedTasks[i].completed /\ ~sortedTasks[j].completed)
                 /\ (sortedTasks[i].completed /\ sortedTasks[j].completed)
                        => sortedTasks[i].id > sortedTasks[j].id

C13_FlagClears ==
    ~timer.pending => ~isCalculating

====
